---- MODULE Spec2Model ----
(***************************************************************************)
(* vhsdecode/formats.py: the VHS parameter sets derived from the laserdisc *)
(* ones.  The module body is a straight-line program: four shallow dict    *)
(* copies ({**d}) followed by item assignments on the copies.  Dicts are    *)
(* heap objects reached through the module's global names, so that a copy  *)
(* and an alias are different things in the model.                         *)
(***************************************************************************)
EXTENDS Integers, Sequences, FiniteSets, TLC

\* ---------------------------------------------------------------- bounds
\* numeric baseline fields take MaxBaseVal different value patterns
MaxBaseVal == 2

\* number of mutations made by the module's users after the import
MaxWrites == 1

\* ---------------------------------------------------------------- values
RECURSIVE GCD(_, _)
GCD(a, b) == IF b = 0 THEN a ELSE GCD(b, a % b)

\* A Python number.  int and float compare by value (7000.0 == 7000), so a
\* number is kept as the exact fraction n/d in lowest terms.
Rat(n, d) == [tag |-> "num", n |-> n \div GCD(n, d), d |-> d \div GCD(n, d), c |-> ""]

Num(n) == Rat(n, 1)

\* A reference to a mutable composite object (a list) living in `cells`.
Ref(c) == [tag |-> "ref", n |-> 0, d |-> 1, c |-> c]

\* ---------------------------------------------------------------- dicts
\* d.setdefault(k, v): an existing item keeps its value
SetDefault(d, k, v) == [x \in (DOMAIN d) \cup {k} |-> IF x = k /\ k \notin DOMAIN d THEN v ELSE d[x]]

\* d[k] = v
SetItem(d, k, v) == [x \in (DOMAIN d) \cup {k} |-> IF x = k THEN v ELSE d[x]]

\* del d[k]
DelItem(d, k) == [x \in (DOMAIN d) \ {k} |-> d[x]]

\* {}: a new dict that takes nothing from d
EmptyDict(d) == [x \in {} |-> d[x]]

\* {**d}: a new dict with the same keys bound to the same value objects
DictUnpack(d) == [x \in DOMAIN d |-> d[x]]

\* ---------------------------------------------------------------- names
RFParams_PAL == "RFParams_PAL"
RFParams_NTSC == "RFParams_NTSC"
SysParams_PAL == "SysParams_PAL"
SysParams_NTSC == "SysParams_NTSC"
RFParams_PAL_VHS == "RFParams_PAL_VHS"
RFParams_NTSC_VHS == "RFParams_NTSC_VHS"
SysParams_PAL_VHS == "SysParams_PAL_VHS"
SysParams_NTSC_VHS == "SysParams_NTSC_VHS"

BaselineNames == {RFParams_PAL, RFParams_NTSC, SysParams_PAL, SysParams_NTSC}
DerivedNames == {RFParams_PAL_VHS, RFParams_NTSC_VHS, SysParams_PAL_VHS, SysParams_NTSC_VHS}

\* the baseline each derived set is copied from
BaselineOf(name) ==
    CASE name = RFParams_PAL_VHS -> RFParams_PAL
      [] name = RFParams_NTSC_VHS -> RFParams_NTSC
      [] name = SysParams_PAL_VHS -> SysParams_PAL
      [] name = SysParams_NTSC_VHS -> SysParams_NTSC

\* ---------------------------------------------------------------- override values
\* 40H without the offset
ColorUnderPAL_NoOffset == (625 * 25) * 40

\* PAL color under carrier is 40H + 1953
ColorUnderPAL == ((625 * 25) * 40) + 1953

\* NTSC color under carrier is 40H: (525 * (30 / 1.001)) * 40, with 1.001 = 1001/1000
ColorUnderNTSC == Rat((525 * (30 * 1000)) * 40, 1001)

HzIrePAL == Rat(700000, 100)

\* the PAL expression pasted into the NTSC line
HzIreNTSC_Pasted == Rat(700000, 100)

HzIreNTSC == Rat(715000, 100)

\* ---------------------------------------------------------------- override tables
RFOverrides_PAL ==
    << <<"video_bpf_low", Num(3550000)>>,
       <<"video_bpf_high", Num(5200000)>>,
       <<"video_bpf_order", Num(1)>>,
       <<"video_lpf_freq", Num(3600000)>>,
       <<"color_under_carrier", Num(ColorUnderPAL)>> >>

\* line 33 with the key of line 32
RFOverrides_NTSC_SameKey ==
    << <<"video_bpf_low", Num(3300000)>>,
       <<"video_bpf_low", Num(5000000)>>,
       <<"video_bpf_order", Num(2)>>,
       <<"video_lpf_freq", Num(3600000)>>,
       <<"color_under_carrier", ColorUnderNTSC>> >>

RFOverrides_NTSC ==
    << <<"video_bpf_low", Num(3300000)>>,
       <<"video_bpf_high", Num(5000000)>>,
       <<"video_bpf_order", Num(2)>>,
       <<"video_lpf_freq", Num(3600000)>>,
       <<"color_under_carrier", ColorUnderNTSC>> >>

SysOverrides_PAL ==
    << <<"ire0", Num(4100000)>>,
       <<"hz_ire", HzIrePAL>>,
       <<"max_ire", Num(100)>>,
       <<"burst_abs_ref", Num(750)>> >>

SysOverrides_NTSC ==
    << <<"ire0", Num(3685000)>>,
       <<"hz_ire", HzIreNTSC>>,
       <<"max_ire", Num(100)>>,
       <<"burst_abs_ref", Num(300)>> >>

OverridesOf(name) ==
    CASE name = RFParams_PAL_VHS -> RFOverrides_PAL
      [] name = RFParams_NTSC_VHS -> RFOverrides_NTSC
      [] name = SysParams_PAL_VHS -> SysOverrides_PAL
      [] name = SysParams_NTSC_VHS -> SysOverrides_NTSC

\* ---------------------------------------------------------------- the module body
CopyStmt(dst, src) == [op |-> "copy", dst |-> dst, src |-> src, key |-> "", val |-> Num(0)]

\* an assignment whose key is misspelt
SetStmtTypo(dst, kv) ==
    [op |-> "set", dst |-> dst, src |-> "", key |-> kv[1] \o "_", val |-> kv[2]]

SetStmt(dst, kv) == [op |-> "set", dst |-> dst, src |-> "", key |-> kv[1], val |-> kv[2]]

SetStmts(dst, table) == [i \in 1..Len(table) |-> SetStmt(dst, table[i])]

\* the module without the assignments at lines 61 to 70
Program_NoSysNTSC ==
    << CopyStmt(RFParams_PAL_VHS, RFParams_PAL),
       CopyStmt(RFParams_NTSC_VHS, RFParams_NTSC) >>
    \o SetStmts(RFParams_PAL_VHS, RFOverrides_PAL)
    \o SetStmts(RFParams_NTSC_VHS, RFOverrides_NTSC)
    \o << CopyStmt(SysParams_PAL_VHS, SysParams_PAL),
          CopyStmt(SysParams_NTSC_VHS, SysParams_NTSC) >>
    \o SetStmts(SysParams_PAL_VHS, SysOverrides_PAL)

\* the statements of the module in source order
Program ==
    << CopyStmt(RFParams_PAL_VHS, RFParams_PAL),
       CopyStmt(RFParams_NTSC_VHS, RFParams_NTSC) >>
    \o SetStmts(RFParams_PAL_VHS, RFOverrides_PAL)
    \o SetStmts(RFParams_NTSC_VHS, RFOverrides_NTSC)
    \o << CopyStmt(SysParams_PAL_VHS, SysParams_PAL),
          CopyStmt(SysParams_NTSC_VHS, SysParams_NTSC) >>
    \o SetStmts(SysParams_PAL_VHS, SysOverrides_PAL)
    \o SetStmts(SysParams_NTSC_VHS, SysOverrides_NTSC)

\* pc value once the module body has run to its end
Done == Len(Program) + 1

\* ---------------------------------------------------------------- the imported baselines
\* Field names the module and its comments mention for each kind of set,
\* plus one unrelated field.
RFFields ==
    << "video_bpf_low", "video_bpf_high", "video_bpf_order", "video_lpf_freq",
       "color_under_carrier", "video_lpf_order", "video_deemp", "foo" >>

SysFields ==
    << "ire0", "hz_ire", "max_ire", "burst_abs_ref", "outlinelen", "vsync_ire" >>

FieldsOf(name) ==
    IF name \in {RFParams_PAL, RFParams_NTSC, RFParams_PAL_VHS, RFParams_NTSC_VHS}
    THEN RFFields ELSE SysFields

Range(seq) == {seq[i] : i \in 1..Len(seq)}

IndexOf(seq, x) == CHOOSE i \in 1..Len(seq) : seq[i] = x

\* the fields that exist only for tape, which the laserdisc sets may lack
TapeOnly(name) ==
    IF FieldsOf(name) = RFFields
    THEN {"color_under_carrier"}
    ELSE {"max_ire", "burst_abs_ref"}

\* the mutable composite object a baseline's video_deemp refers to
CellOf(name) == IF name = RFParams_PAL THEN "deemp_PAL" ELSE "deemp_NTSC"

CellIds == {CellOf(RFParams_PAL), CellOf(RFParams_NTSC)}

\* a baseline dict: every field, but the tape-only ones when `tape` is false;
\* numeric fields hold pairwise different numbers that depend on k
MkBaseline(name, tape, k) ==
    [f \in Range(FieldsOf(name)) \ (IF tape THEN {} ELSE TapeOnly(name)) |->
        IF f = "video_deemp" THEN Ref(CellOf(name))
        ELSE Num(10 * k + IndexOf(FieldsOf(name), f))]

\* every combination of the four imported dicts
Imports ==
    {[n \in BaselineNames |-> MkBaseline(n, c[n][1], c[n][2])] :
        c \in [BaselineNames -> BOOLEAN \X (1..MaxBaseVal)]}

\* the four imported dicts built alike
UniformImports ==
    {[n \in BaselineNames |-> MkBaseline(n, t, k)] : t \in BOOLEAN, k \in 1..MaxBaseVal}

\* ---------------------------------------------------------------- state
VARIABLES
    pc,         \* index in Program of the next statement of the module body
    globals,    \* the module's global names -> dict object id
    objs,       \* dict object id -> the dict's contents
    cells,      \* mutable composite object id -> its contents
    base0,      \* the contents of the imported dicts at import time
    lastRead,   \* what a user of the module last read from a derived set
    writes,     \* mutations made by users of the module so far
    lastWrite,  \* the name and field the last user mutation went through
    first,      \* the derived dicts of the first run of the module body, kept by a user
    remaining,  \* statements still to run when the order is left open
    focus       \* the derived set whose overrides run in any order

vars == <<pc, globals, objs, cells, base0, lastRead, writes, lastWrite, first, remaining, focus>>

NoRead == [name |-> "", key |-> "", val |-> Num(0)]

NoWrite == [name |-> "", key |-> "", run |-> ""]

NoFirst == [n \in {} |-> 1]

\* the dict a global name refers to
Dict(name) == objs[globals[name]]

\* line 1: the four imported names are bound to the four upstream dicts
InitFrom(imports) ==
    /\ pc = 1
    /\ globals = (RFParams_PAL :> 1) @@ (RFParams_NTSC :> 2) @@
                 (SysParams_PAL :> 3) @@ (SysParams_NTSC :> 4)
    /\ \E b \in imports :
          /\ objs = <<b[RFParams_PAL], b[RFParams_NTSC], b[SysParams_PAL], b[SysParams_NTSC]>>
          /\ base0 = b
    /\ cells = [c \in CellIds |-> 0]
    /\ lastRead = NoRead
    /\ writes = 0
    /\ lastWrite = NoWrite
    /\ first = NoFirst
    /\ remaining = {}
    /\ focus = ""

Init == InitFrom(Imports)

\* a new object gets an identity no live object has
FreshId == Cardinality(DOMAIN objs) + 1

\* NAME = SRC: the name is bound to the source dict itself
AliasBinding(src) == globals[src]

\* the object a name is bound to by NAME = {**SRC}
CopyBinding(src) == FreshId

\* the assignment goes to the imported dict instead of the copy
TargetBaseline(s) == BaselineOf(s.dst)

\* the name whose dict NAME[key] = value stores into
Target(s) == s.dst

\* NAME = {**SRC}
ExecCopy(s) ==
    /\ s.op = "copy"
    /\ objs' = [i \in (DOMAIN objs) \cup {CopyBinding(s.src)} |->
                    IF i = CopyBinding(s.src) THEN DictUnpack(Dict(s.src)) ELSE objs[i]]
    /\ globals' = [n \in (DOMAIN globals) \cup {s.dst} |->
                    IF n = s.dst THEN CopyBinding(s.src) ELSE globals[n]]

\* NAME[key] = value
ExecSet(s) ==
    /\ s.op = "set"
    /\ Target(s) \in DOMAIN globals
    /\ objs' = [objs EXCEPT ![globals[Target(s)]] = SetItem(@, s.key, s.val)]
    /\ globals' = globals

\* the next statement of the module body is a copy
StmtCopy ==
    /\ pc < Done
    /\ ExecCopy(Program[pc])
    /\ pc' = pc + 1
    /\ UNCHANGED <<cells, base0, lastRead, writes, lastWrite, first, remaining, focus>>

\* the next statement of the module body is an item assignment
StmtSetItem ==
    /\ pc < Done
    /\ ExecSet(Program[pc])
    /\ pc' = pc + 1
    /\ UNCHANGED <<cells, base0, lastRead, writes, lastWrite, first, remaining, focus>>

\* a user of the module reads a field of a derived set; the import statement
\* that gives it the module returns when the module body has run
Read ==
    /\ pc = Done
    /\ \E name \in DerivedNames : \E f \in DOMAIN Dict(name) :
          lastRead' = [name |-> name, key |-> f, val |-> Dict(name)[f]]
    /\ UNCHANGED <<pc, globals, objs, cells, base0, writes, lastWrite, first, remaining, focus>>

Next == StmtCopy \/ StmtSetItem \/ Read

Spec == Init /\ [][Next]_vars

\* ---------------------------------------------------------------- users that mutate
AllNames == BaselineNames \cup DerivedNames

\* the value a user stores
NewVals == {Num(0)}

\* a user of the module or of the upstream library assigns an item of one of
\* the eight dicts
UserSetItem ==
    /\ pc = Done
    /\ writes < MaxWrites
    /\ \E name \in AllNames : \E f \in Range(FieldsOf(name)) : \E v \in NewVals :
          /\ objs' = [objs EXCEPT ![globals[name]] = SetItem(@, f, v)]
          /\ lastWrite' = [name |-> name, key |-> f, run |-> "setitem"]
    /\ writes' = writes + 1
    /\ UNCHANGED <<pc, globals, cells, base0, lastRead, first, remaining, focus>>

\* a user deletes an item of one of the eight dicts
UserDelItem ==
    /\ pc = Done
    /\ writes < MaxWrites
    /\ \E name \in AllNames : \E f \in DOMAIN Dict(name) :
          /\ objs' = [objs EXCEPT ![globals[name]] = DelItem(@, f)]
          /\ lastWrite' = [name |-> name, key |-> f, run |-> "delitem"]
    /\ writes' = writes + 1
    /\ UNCHANGED <<pc, globals, cells, base0, lastRead, first, remaining, focus>>

\* a user changes, in place, the composite value an item of a dict refers to
\* (NAME[key].append(x)); the dict itself is not written
UserMutateComposite ==
    /\ pc = Done
    /\ writes < MaxWrites
    /\ \E name \in AllNames : \E f \in DOMAIN Dict(name) :
          /\ Dict(name)[f].tag = "ref"
          /\ cells' = [cells EXCEPT ![Dict(name)[f].c] = @ + 1]
          /\ lastWrite' = [name |-> name, key |-> f, run |-> "inplace"]
    /\ writes' = writes + 1
    /\ UNCHANGED <<pc, globals, objs, base0, lastRead, first, remaining, focus>>

NextMut == StmtCopy \/ StmtSetItem \/ UserSetItem \/ UserDelItem \/ UserMutateComposite

SpecMut == InitFrom(UniformImports) /\ [][NextMut]_vars

\* ---------------------------------------------------------------- the module body run twice
\* importlib.reload: the module body runs again in the same namespace, while
\* a user still holds the four dicts of the first run
Reload ==
    /\ pc = Done
    /\ first = NoFirst
    /\ first' = [n \in DerivedNames |-> globals[n]]
    /\ pc' = 1
    /\ UNCHANGED <<globals, objs, cells, base0, lastRead, writes, lastWrite, remaining, focus>>

\* a user assigns an item of a derived dict of the first or of the second run
ResultSetItem ==
    /\ pc = Done
    /\ first # NoFirst
    /\ writes < MaxWrites
    /\ \E run \in {"first", "second"} : \E name \in DerivedNames :
       \E f \in Range(FieldsOf(name)) : \E v \in NewVals :
          /\ objs' = [objs EXCEPT ![IF run = "first" THEN first[name] ELSE globals[name]] =
                                     SetItem(@, f, v)]
          /\ lastWrite' = [name |-> name, key |-> f, run |-> run]
    /\ writes' = writes + 1
    /\ UNCHANGED <<pc, globals, cells, base0, lastRead, first, remaining, focus>>

NextTwice == StmtCopy \/ StmtSetItem \/ Reload \/ ResultSetItem

SpecTwice == InitFrom(UniformImports) /\ [][NextTwice]_vars

\* ---------------------------------------------------------------- the statements in another order
\* statement i may run next: an override of the focus set once the set exists,
\* any other statement when the statements before it that are not the focus
\* set's have run
Runnable(i) ==
    /\ i \in remaining
    /\ IF Program[i].dst = focus
       THEN Program[i].op = "copy" \/ focus \in DOMAIN globals
       ELSE \A j \in remaining : j < i => Program[j].dst = focus

AnyCopy ==
    /\ \E i \in remaining :
          /\ Runnable(i)
          /\ ExecCopy(Program[i])
          /\ remaining' = remaining \ {i}
    /\ UNCHANGED <<pc, cells, base0, lastRead, writes, lastWrite, first, focus>>

AnySetItem ==
    /\ \E i \in remaining :
          /\ Runnable(i)
          /\ ExecSet(Program[i])
          /\ remaining' = remaining \ {i}
    /\ UNCHANGED <<pc, cells, base0, lastRead, writes, lastWrite, first, focus>>

InitOrder ==
    /\ pc = 1
    /\ globals = (RFParams_PAL :> 1) @@ (RFParams_NTSC :> 2) @@
                 (SysParams_PAL :> 3) @@ (SysParams_NTSC :> 4)
    /\ \E b \in UniformImports :
          /\ objs = <<b[RFParams_PAL], b[RFParams_NTSC], b[SysParams_PAL], b[SysParams_NTSC]>>
          /\ base0 = b
    /\ cells = [c \in CellIds |-> 0]
    /\ lastRead = NoRead
    /\ writes = 0
    /\ lastWrite = NoWrite
    /\ first = NoFirst
    /\ remaining = 1..Len(Program)
    /\ focus \in DerivedNames

NextOrder == AnyCopy \/ AnySetItem

SpecOrder == InitOrder /\ [][NextOrder]_vars

\* ---------------------------------------------------------------- derive(B, O)
Keys(table) == {table[i][1] : i \in 1..Len(table)}

\* the overrides of a table applied to a dict in the order they are written
RECURSIVE ApplyInOrder(_, _)
ApplyInOrder(d, table) ==
    IF table = << >> THEN d
    ELSE ApplyInOrder(SetItem(d, table[1][1], table[1][2]), Tail(table))

\* what the module body, run in source order, makes of a baseline
SourceOrderResult(name) ==
    ApplyInOrder(DictUnpack(base0[BaselineOf(name)]), OverridesOf(name))

\* the derived sets the module has created so far
Created == DerivedNames \cap DOMAIN globals

\* the assignments to a derived set that have run
Assigned(name) == {i \in 1..(pc - 1) : Program[i].op = "set" /\ Program[i].dst = name}

\* a dict as a reader sees it, composite values followed to their contents
View(d) == [f \in DOMAIN d |-> IF d[f].tag = "ref" THEN <<"list", cells[d[f].c]>> ELSE <<"num", d[f].n, d[f].d>>]

\* ---------------------------------------------------------------- claims under Spec

\* C1 -- override precedence: once an override of a derived set has run, the
\* set holds the assigned value for that key, whatever the baseline held
C1_OverridePrecedence ==
    \A name \in Created : \A i \in Assigned(name) :
        /\ Program[i].key \in DOMAIN Dict(name)
        /\ Dict(name)[Program[i].key] = Program[i].val

\* all overrides ran on a baseline that held other values for some keys and
\* lacked others
C1_Witness ==
    /\ pc = Done
    /\ "color_under_carrier" \notin DOMAIN base0[RFParams_PAL]
    /\ base0[RFParams_PAL]["video_bpf_low"] # Num(3550000)
    /\ Dict(RFParams_PAL_VHS)["video_bpf_low"] = Num(3550000)
    /\ "max_ire" \in DOMAIN base0[SysParams_NTSC]

\* C2 -- completeness: every baseline field the module does not assign is in
\* the derived set with the baseline's value
C2_Completeness ==
    \A name \in Created :
        \A f \in (DOMAIN base0[BaselineOf(name)]) \ Keys(OverridesOf(name)) :
            /\ f \in DOMAIN Dict(name)
            /\ Dict(name)[f] = base0[BaselineOf(name)][f]

C2_Witness ==
    /\ pc = Done
    /\ "video_lpf_order" \in DOMAIN base0[RFParams_PAL]
    /\ Dict(RFParams_PAL_VHS)["video_lpf_order"] = base0[RFParams_PAL]["video_lpf_order"]
    /\ Dict(RFParams_PAL_VHS)["foo"] = base0[RFParams_PAL]["foo"]
    /\ Dict(SysParams_NTSC_VHS)["vsync_ire"] = base0[SysParams_NTSC]["vsync_ire"]

\* C3 -- non-destructive derivation: at every step of the module body and
\* after it, each imported dict is field for field what it was at import
C3_BaselineUntouched ==
    /\ \A b \in BaselineNames : Dict(b) = base0[b]
    /\ \A c \in CellIds : cells[c] = 0

\* the derivation is over and has changed the copies
C3_Witness ==
    /\ pc = Done
    /\ \A name \in DerivedNames : Dict(name) # Dict(BaselineOf(name))

\* C5 as stated -- the derived set has the same field names as its baseline
C5_SameDomain ==
    \A name \in Created : DOMAIN Dict(name) = DOMAIN Dict(BaselineOf(name))

\* C5 amended -- no baseline field is dropped, no field outside the override
\* table is added, and the finished set has the baseline's fields together
\* with the override keys
C5_DomainIsBaselinePlusOverrides ==
    \A name \in Created :
        /\ DOMAIN base0[BaselineOf(name)] \subseteq DOMAIN Dict(name)
        /\ DOMAIN Dict(name) \subseteq (DOMAIN base0[BaselineOf(name)]) \cup Keys(OverridesOf(name))
        /\ pc = Done =>
             DOMAIN Dict(name) = (DOMAIN base0[BaselineOf(name)]) \cup Keys(OverridesOf(name))

\* color_under_carrier was assigned into RF sets whose baselines lack it
C5_Witness ==
    /\ pc = Done
    /\ "color_under_carrier" \notin DOMAIN base0[RFParams_PAL]
    /\ "color_under_carrier" \notin DOMAIN base0[RFParams_NTSC]
    /\ "color_under_carrier" \in DOMAIN Dict(RFParams_PAL_VHS)
    /\ "color_under_carrier" \in DOMAIN Dict(RFParams_NTSC_VHS)

\* the four other RF values of the 625-line set
RF_PAL_Bands ==
    /\ Dict(RFParams_PAL_VHS)["video_bpf_low"] = Num(3550000)
    /\ Dict(RFParams_PAL_VHS)["video_bpf_high"] = Num(5200000)
    /\ Dict(RFParams_PAL_VHS)["video_bpf_order"] = Num(1)
    /\ Dict(RFParams_PAL_VHS)["video_lpf_freq"] = Num(3600000)

\* C6 as stated -- the 625-line RF set has color under carrier 1,954,453
C6_AsStated ==
    pc = Done =>
        /\ RF_PAL_Bands
        /\ Dict(RFParams_PAL_VHS)["color_under_carrier"] = Num(1954453)

\* C6 amended -- the 625-line RF set has the four filter values and color
\* under carrier (625*25*40)+1953, which is 626,953
C6_RF_PAL_Values ==
    pc = Done =>
        /\ RF_PAL_Bands
        /\ Dict(RFParams_PAL_VHS)["color_under_carrier"] = Num(626953)

C6_Witness ==
    /\ pc = Done
    /\ base0[RFParams_PAL]["video_bpf_low"] # Num(3550000)
    /\ base0[RFParams_PAL]["video_bpf_high"] # Num(5200000)
    /\ Dict(RFParams_PAL_VHS)["color_under_carrier"].n = 626953

\* the override fields in which the two system sets differ
SysDiff ==
    {f \in Keys(SysOverrides_NTSC) \cup Keys(SysOverrides_PAL) :
        Dict(SysParams_NTSC_VHS)[f] # Dict(SysParams_PAL_VHS)[f]}

\* C7 -- the 525-line system set holds ire0 3,685,000, hz_ire 7150, max_ire
\* 100, burst_abs_ref 300 and differs from the 625-line one (4,100,000, 7000,
\* 750) in exactly ire0, hz_ire and burst_abs_ref
C7_Sys_NTSC_Values ==
    pc = Done =>
        /\ Dict(SysParams_NTSC_VHS)["ire0"] = Num(3685000)
        /\ Dict(SysParams_NTSC_VHS)["hz_ire"] = Num(7150)
        /\ Dict(SysParams_NTSC_VHS)["max_ire"] = Num(100)
        /\ Dict(SysParams_NTSC_VHS)["burst_abs_ref"] = Num(300)
        /\ Dict(SysParams_PAL_VHS)["ire0"] = Num(4100000)
        /\ Dict(SysParams_PAL_VHS)["hz_ire"] = Num(7000)
        /\ Dict(SysParams_PAL_VHS)["max_ire"] = Num(100)
        /\ Dict(SysParams_PAL_VHS)["burst_abs_ref"] = Num(750)
        /\ SysDiff = {"ire0", "hz_ire", "burst_abs_ref"}

C7_Witness ==
    /\ pc = Done
    /\ Dict(SysParams_NTSC_VHS)["hz_ire"].n = 7150
    /\ Dict(SysParams_NTSC_VHS)["hz_ire"].d = 1
    /\ base0[SysParams_NTSC]["ire0"] # base0[SysParams_PAL]["ire0"]

\* the value a finished derived set holds for a field: the override when the
\* table has one, the baseline's value otherwise
Overridden(name, f) ==
    IF f \in Keys(OverridesOf(name))
    THEN OverridesOf(name)[CHOOSE i \in 1..Len(OverridesOf(name)) : OverridesOf(name)[i][1] = f][2]
    ELSE base0[BaselineOf(name)][f]

\* C8 -- once the module body has run no derived set is written or rebound,
\* a read happens only then, and it returns the fully overridden value
C8_Step ==
    /\ pc = Done =>
         /\ pc' = Done
         /\ \A name \in DerivedNames :
              /\ globals'[name] = globals[name]
              /\ objs'[globals'[name]] = objs[globals[name]]
    /\ lastRead' # lastRead =>
         /\ pc = Done
         /\ lastRead'.val = Overridden(lastRead'.name, lastRead'.key)

C8_ImmutableAfterInit == [][C8_Step]_vars

\* a reader has read an overridden field after the module body ran
C8_Witness ==
    /\ pc = Done
    /\ lastRead.name = RFParams_NTSC_VHS
    /\ lastRead.key = "color_under_carrier"
    /\ lastRead.val = ColorUnderNTSC

\* ---------------------------------------------------------------- claims under SpecMut

\* the names a mutation made through `name` may show through: the name itself
Others(name) == AllNames \ {name}

\* C4 as stated -- a user mutation made through one of the eight names,
\* in-place mutation of a composite value included, changes what a reader
\* sees through none of the other names
C4_StepDeep ==
    writes' # writes =>
        \A n \in Others(lastWrite'.name) :
            [f \in DOMAIN objs'[globals'[n]] |->
                IF objs'[globals'[n]][f].tag = "ref"
                THEN <<"list", cells'[objs'[globals'[n]][f].c]>>
                ELSE <<"num", objs'[globals'[n]][f].n, objs'[globals'[n]][f].d>>]
            = View(Dict(n))

C4_DeepIndependence == [][C4_StepDeep]_vars

\* C4 amended -- assigning or deleting an item of one dict changes none of the
\* other seven dicts nor what a reader sees in them, the derived sets are four
\* objects distinct from each other and from the baselines, and an in-place
\* mutation of a composite value writes no dict: each dict still holds the
\* same reference
C4_StepShallow ==
    writes' # writes =>
        /\ \A n \in AllNames : \A m \in Others(n) : globals[n] # globals[m]
        /\ \A n \in Others(lastWrite'.name) : objs'[globals'[n]] = Dict(n)
        /\ lastWrite'.run = "inplace" => objs' = objs
        /\ lastWrite'.run # "inplace" => cells' = cells

C4_ContainerIndependence == [][C4_StepShallow]_vars

\* a baseline and a derived set have each been written after the import
C4_Witness ==
    /\ writes > 0
    /\ lastWrite.name = RFParams_PAL
    /\ lastWrite.run = "setitem"
    /\ Dict(RFParams_PAL) # base0[RFParams_PAL]
    /\ Dict(RFParams_PAL_VHS)[lastWrite.key] # Dict(RFParams_PAL)[lastWrite.key]

\* ---------------------------------------------------------------- claims under SpecOrder

\* C9 -- order independence: whatever order the overrides of a table ran in,
\* and however the statements of the four sets were interleaved, the four
\* finished sets are the ones the source order gives
C9_OrderIndependence ==
    remaining = {} =>
        \A name \in DerivedNames : Dict(name) = SourceOrderResult(name)

\* the 525-line RF set was finished with its last override run first, before
\* the 625-line RF set was copied
C9_Witness ==
    /\ remaining = {}
    /\ focus = RFParams_NTSC_VHS
    /\ globals[RFParams_NTSC_VHS] < globals[RFParams_PAL_VHS]
    /\ Dict(RFParams_NTSC_VHS)["video_bpf_low"] = Num(3300000)

\* ---------------------------------------------------------------- claims under SpecTwice

\* the dict of the first run and the dict of the second run of a derived set
FirstResult(name) == objs[first[name]]

\* C10 -- the two runs of the module body give, for each derived set, two
\* distinct dicts with equal items, and a write to one of them leaves the
\* other as it was
C10_Step ==
    /\ (pc = Done /\ first # NoFirst /\ writes = 0) =>
         \A name \in DerivedNames :
            /\ first[name] # globals[name]
            /\ FirstResult(name) = Dict(name)
    /\ writes' # writes =>
         \A name \in DerivedNames :
            /\ lastWrite'.run = "first" => objs'[globals'[name]] = Dict(name)
            /\ lastWrite'.run = "second" => objs'[first'[name]] = FirstResult(name)

C10_Rederivation == [][C10_Step]_vars

\* both runs are over and the result of the second one has been written
C10_Witness ==
    /\ pc = Done
    /\ first # NoFirst
    /\ writes > 0
    /\ lastWrite.run = "second"
    /\ lastWrite.name = RFParams_PAL_VHS
    /\ FirstResult(RFParams_PAL_VHS) # Dict(RFParams_PAL_VHS)
    /\ FirstResult(RFParams_PAL_VHS) = SourceOrderResult(RFParams_PAL_VHS)

====
